---- MODULE Spec2Model ----
(***************************************************************************)
(* Model of the email queue of the Pressure platform:                     *)
(*   - the queue write path, NetlifyBlobsEmailService.sendEmail           *)
(*     (src/src/lib/email/providers/netlify-blobs.ts);                    *)
(*   - the drain endpoint, the process-email-queue handler                *)
(*     (src/netlify/functions/verify-and-send.ts, lines 244-368);         *)
(*   - the other delivery strategies (console, SendGrid, Mailgun) and     *)
(*     their factory (src/src/lib/email/factory.ts);                      *)
(*   - the handlers of the campaign site that call them,                  *)
(*     send-magic-link and verify-and-send.                               *)
(*                                                                         *)
(* The blob store (@netlify/blobs) is the environment.  Each of its       *)
(* operations (setJSON, list, get, delete) is atomic per key and either   *)
(* takes effect and resolves, or rejects without having taken effect;     *)
(* delete of an absent key resolves.  Every await of the handler is a     *)
(* point where other invocations may run, so each store operation is one  *)
(* step; the synchronous code before and after an await belongs to the    *)
(* step of that await.                                                     *)
(*                                                                         *)
(* The network (fetch and the reads of its response) is the environment  *)
(* as well: every call resolves or rejects as it pleases.  A site handler *)
(* awaits nothing but its one sendEmail call and is one step.             *)
(***************************************************************************)
EXTENDS Integers, Sequences, FiniteSets, TLC

(***************************************************************************)
(* Bounds of the model.                                                    *)
(***************************************************************************)
MaxJobs == 3        \* number of sendEmail calls (ids generated) in a run
MaxFaults == 1      \* number of store operations that reject in a run
MaxRacedJobs == 2   \* number of sendEmail calls when two drains race
MaxSiteCalls == 2   \* number of requests to the handlers of the site
MaxLinkCalls == 3   \* number of requests while one magic link is followed

\* the two concurrent invocations of the drain handler
Procs == {"d1", "d2"}

(***************************************************************************)
(* JavaScript values.  An optional value is a sequence of length 0 or 1;  *)
(* strings that the code inspects are sequences of one-character strings. *)
(***************************************************************************)
None == <<>>
Some(v) == <<v>>

Undefined == [t |-> "undefined"]
Null == [t |-> "null"]
NaN == [t |-> "NaN"]
Num(n) == [t |-> "number", v |-> n]
\* a number with a fractional part: whole + 1/2
Frac(n) == [t |-> "fraction", v |-> n]
Str(s) == [t |-> "string", v |-> s]

\* JavaScript truthiness, as used by || and !
Truthy(x) ==
  CASE x.t = "undefined" -> FALSE
    [] x.t = "null" -> FALSE
    [] x.t = "NaN" -> FALSE
    [] x.t = "number" -> x.v # 0
    [] x.t = "fraction" -> TRUE
    [] x.t = "string" -> Len(x.v) > 0
    [] OTHER -> TRUE

\* a || b
Or(a, b) == IF Truthy(a) THEN a ELSE b

Digits == <<"0", "1", "2", "3", "4", "5", "6", "7", "8", "9">>
IsDigit(c) == \E i \in 1..10 : Digits[i] = c
DigitVal(c) == (CHOOSE i \in 1..10 : Digits[i] = c) - 1

RECURSIVE ParseDigits(_, _, _)
\* the value of the longest prefix of digits of s from position i on,
\* acc the value read so far
ParseDigits(s, i, acc) ==
  IF i > Len(s) \/ ~IsDigit(s[i]) THEN acc
  ELSE ParseDigits(s, i + 1, acc * 10 + DigitVal(s[i]))

\* parseInt(s, 10) on an unsigned string
parseInt(s) ==
  IF Len(s) = 0 \/ ~IsDigit(s[1]) THEN NaN ELSE Num(ParseDigits(s, 1, 0))

\* ToIntegerOrInfinity of the second argument of Array.prototype.slice
ToInteger(x) ==
  CASE x.t = "number" -> x.v
    [] x.t = "fraction" -> x.v
    [] x.t = "string" -> (IF parseInt(x.v).t = "number" THEN parseInt(x.v).v ELSE 0)
    [] OTHER -> 0

Min(a, b) == IF a < b THEN a ELSE b
Max(a, b) == IF a > b THEN a ELSE b

\* a slice that stops one key short
SliceOneShort(s, end) ==
  LET rel == ToInteger(end)
      final == IF rel < 0 THEN Max(Len(s) + rel, 0) ELSE Min(rel, Len(s))
  IN SubSeq(s, 1, final - 1)

\* blobs.slice(0, end)
Slice(s, end) ==
  LET rel == ToInteger(end)
      final == IF rel < 0 THEN Max(Len(s) + rel, 0) ELSE Min(rel, Len(s))
  IN SubSeq(s, 1, final)

\* the orders in which store.list() may report the keys of S
Perms(S) ==
  {f \in [1..Cardinality(S) -> S] : \A i, j \in 1..Cardinality(S) : f[i] = f[j] => i = j}

SeqToSet(s) == {s[i] : i \in 1..Len(s)}

Arr(s) == [t |-> "array", v |-> s]
Obj(l) == [t |-> "object", limit |-> l]
SyntaxError == [t |-> "SyntaxError"]

(***************************************************************************)
(* Configuration: process.env                                              *)
(***************************************************************************)
Secret == Str(<<"s", "3", "c">>)
\* the values of EMAIL_NETLIFY_BLOBS_API_KEY
ApiKeyEnvs == {Undefined, Secret}
\* the values of EMAIL_NETLIFY_BLOBS_DEFAULT_BATCH_SIZE
BatchSizeEnvs == {Undefined, Str(<<"2">>)}

(***************************************************************************)
(* Requests to the drain endpoint                                          *)
(***************************************************************************)
Bearer == <<"B", "e", "a", "r", "e", "r">>
Sp == <<" ">>

\* values of an Authorization header
AuthValues ==
  { Undefined,
    Str(Secret.v),
    Str(Bearer \o Sp \o Secret.v),
    Str(<<"b", "E", "A", "R", "E", "R">> \o Sp \o Sp \o Secret.v),
    Str(Bearer \o Secret.v),
    Str(Bearer \o Sp \o <<"b", "a", "d">>),
    Str(Bearer \o Sp) }

\* event.headers: the two spellings the handler looks up
HeaderSets ==
  {[authorization |-> a, Authorization |-> Undefined] : a \in AuthValues}
  \cup {[authorization |-> Undefined, Authorization |-> Str(Bearer \o Sp \o Secret.v)],
        [authorization |-> Str(<<"b", "a", "d">>), Authorization |-> Str(Secret.v)]}

\* event.body: null, or the text of the request body
Bodies ==
  { Null,
    Str(<<"{\"limit\":1}">>),
    Str(<<"{\"limit\":2}">>),
    Str(<<"{\"limit\":0}">>),
    Str(<<"{\"limit\":-1}">>),
    Str(<<"{\"limit\":1.5}">>),
    Str(<<"{\"limit\":\"abc\"}">>),
    Str(<<"{limit">>),
    Str(<<"null">>),
    Str(<<"[]">>) }

\* JSON.parse on the request bodies above
JSONparse(text) ==
  CASE text = Str(<<"{}">>) -> Obj(Undefined)
    [] text = Str(<<"{\"limit\":1}">>) -> Obj(Num(1))
    [] text = Str(<<"{\"limit\":2}">>) -> Obj(Num(2))
    [] text = Str(<<"{\"limit\":0}">>) -> Obj(Num(0))
    [] text = Str(<<"{\"limit\":-1}">>) -> Obj(Num(-1))
    [] text = Str(<<"{\"limit\":1.5}">>) -> Obj(Frac(1))
    [] text = Str(<<"{\"limit\":\"abc\"}">>) -> Obj(Str(<<"a", "b", "c">>))
    [] text = Str(<<"null">>) -> Null
    [] text = Str(<<"[]">>) -> Arr(<<>>)
    [] OTHER -> SyntaxError

GoodAuth == [authorization |-> Str(Bearer \o Sp \o Secret.v), Authorization |-> Undefined]
NoAuth == [authorization |-> Undefined, Authorization |-> Undefined]

\* the requests sent to the drain endpoint
Events ==
  [httpMethod : {"POST"}, headers : HeaderSets, body : {Str(<<"{\"limit\":2}">>)}]
  \cup [httpMethod : {"POST"}, headers : {GoodAuth}, body : Bodies]
  \cup [httpMethod : {"GET"}, headers : {GoodAuth, NoAuth}, body : {Null}]

Lower(c) ==
  CASE c = "B" -> "b" [] c = "E" -> "e" [] c = "A" -> "a" [] c = "R" -> "r"
    [] OTHER -> c

IsSpace(c) == c \in {" ", "\t", "\n"}

RECURSIVE SkipSpaces(_, _)
\* the first position from i on that holds no white space
SkipSpaces(s, i) ==
  IF i <= Len(s) /\ IsSpace(s[i]) THEN SkipSpaces(s, i + 1) ELSE i

\* s.replace(/^Bearer\s+/i, '')
StripBearer(s) ==
  IF /\ Len(s) >= 7
     /\ [i \in 1..6 |-> Lower(s[i])] = [i \in 1..6 |-> Lower(Bearer[i])]
     /\ IsSpace(s[7])
  THEN SubSeq(s, SkipSpaces(s, 7), Len(s))
  ELSE s

\* a check that lets a request without credentials through
validateApiKeyLenient(event, env) ==
  LET apiKey == env.EMAIL_NETLIFY_BLOBS_API_KEY
      authHeader == Or(event.headers.authorization, event.headers.Authorization)
      providedKey == IF authHeader.t = "string" THEN Str(StripBearer(authHeader.v))
                     ELSE Undefined
  IN IF ~Truthy(apiKey) THEN TRUE
     ELSE ~Truthy(providedKey) \/ providedKey = apiKey

\* validateApiKey(event)
validateApiKey(event, env) ==
  LET apiKey == env.EMAIL_NETLIFY_BLOBS_API_KEY
      authHeader == Or(event.headers.authorization, event.headers.Authorization)
      providedKey == IF authHeader.t = "string" THEN Str(StripBearer(authHeader.v))
                     ELSE Undefined
  IN IF ~Truthy(apiKey) THEN TRUE ELSE providedKey = apiKey

\* the literal '10' of the handler
DefaultBatchSizeLiteral == Str(<<"1", "0">>)

\* parseInt(process.env.EMAIL_NETLIFY_BLOBS_DEFAULT_BATCH_SIZE || '10', 10)
defaultBatchSize(env) ==
  parseInt(Or(env.EMAIL_NETLIFY_BLOBS_DEFAULT_BATCH_SIZE, DefaultBatchSizeLiteral).v)

\* JSON.parse(event.body || '{}'): the parsed request, or SyntaxError
ParseRequest(event) ==
  JSONparse(Or(event.body, Str(<<"{}">>)))

\* request.limit throws a TypeError when request is null
LimitThrows(request) == request.t = "null"

\* request.limit
RequestLimit(request) ==
  IF request.t = "object" THEN request.limit ELSE Undefined

\* the limit of the request ignored
EffectiveLimitIgnoresRequest(request, env) == defaultBatchSize(env)

\* const limit = request.limit || defaultBatchSize
EffectiveLimit(request, env) ==
  Or(RequestLimit(request), defaultBatchSize(env))

(***************************************************************************)
(* The queue write path                                                    *)
(***************************************************************************)
\* the service the factory builds for EMAIL_PROVIDER=netlify-blobs
QueueService ==
  [fromEmail |-> Str(<<"noreply@example.com">>),
   fromName |-> Str(<<"Pressure Campaign">>)]

\* the send requests of the upstream callers
SendOptions ==
  { [to |-> Str(<<"mp@example.org">>), cc |-> Undefined, bcc |-> Undefined,
     subject |-> Str(<<"Act now">>), text |-> Str(<<"Please act.">>),
     html |-> Undefined, from |-> Undefined, fromName |-> Str(<<"Campaign">>)],
    [to |-> Arr(<<Str(<<"mp@example.org">>), Str(<<"a@b.com">>)>>),
     cc |-> Arr(<<Str(<<"user@example.com">>)>>), bcc |-> Str(<<"audit@example.com">>),
     subject |-> Str(<<"S">>), text |-> Str(<<"T">>),
     html |-> Str(<<"<p>T</p>">>), from |-> Str(<<"me@example.com">>),
     fromName |-> Undefined] }

\* the send request of the queue's callers while the drain is examined
QueuedOptions == {o \in SendOptions : o.html = Undefined}

\* an id generator that repeats itself
uuidRepeated(n) == Str(<<"uuid", 1>>)

\* the n-th value returned by uuid()
uuid(n) == Str(<<"uuid", n>>)

\* recipients passed on as they were given
normalizeRecipientsAsGiven(recipients) == recipients

\* BaseEmailService.normalizeRecipients
normalizeRecipients(recipients) ==
  IF recipients.t = "array" THEN recipients ELSE Arr(<<recipients>>)

\* BaseEmailService.getSender
getSender(svc, from) == Or(from, svc.fromEmail)

\* BaseEmailService.getSenderName
getSenderName(svc, fromName) == Or(fromName, svc.fromName)

\* a job whose id is not the key it is stored under
EmailJobOwnId(svc, jobId, options, time) ==
  [id |-> Str(<<"job", time>>),
   to |-> normalizeRecipients(options.to),
   cc |-> IF Truthy(options.cc) THEN normalizeRecipients(options.cc) ELSE Undefined,
   bcc |-> IF Truthy(options.bcc) THEN normalizeRecipients(options.bcc) ELSE Undefined,
   subject |-> options.subject,
   text |-> options.text,
   html |-> options.html,
   from |-> getSender(svc, options.from),
   fromName |-> getSenderName(svc, options.fromName),
   createdAt |-> Num(time)]

\* the emailJob object built by sendEmail
EmailJob(svc, jobId, options, time) ==
  [id |-> jobId,
   to |-> normalizeRecipients(options.to),
   cc |-> IF Truthy(options.cc) THEN normalizeRecipients(options.cc) ELSE Undefined,
   bcc |-> IF Truthy(options.bcc) THEN normalizeRecipients(options.bcc) ELSE Undefined,
   subject |-> options.subject,
   text |-> options.text,
   html |-> options.html,
   from |-> getSender(svc, options.from),
   fromName |-> getSenderName(svc, options.fromName),
   createdAt |-> Num(time)]

\* what JSON.stringify followed by JSON.parse keeps of an object: the
\* properties whose value is undefined are dropped
JSONObject(obj) ==
  [f \in {g \in DOMAIN obj : obj[g] # Undefined} |-> obj[f]]

(***************************************************************************)
(* The delivery strategies and their factory                               *)
(***************************************************************************)
UpperCase ==
  <<"A", "B", "C", "D", "E", "F", "G", "H", "I", "J", "K", "L", "M",
    "N", "O", "P", "Q", "R", "S", "T", "U", "V", "W", "X", "Y", "Z">>
LowerCase ==
  <<"a", "b", "c", "d", "e", "f", "g", "h", "i", "j", "k", "l", "m",
    "n", "o", "p", "q", "r", "s", "t", "u", "v", "w", "x", "y", "z">>

\* String.prototype.toLowerCase on a sequence of characters
toLowerCase(s) ==
  [i \in 1..Len(s) |->
     IF \E j \in 1..26 : UpperCase[j] = s[i]
     THEN LowerCase[CHOOSE j \in 1..26 : UpperCase[j] = s[i]]
     ELSE s[i]]

\* the case labels of the switch of the factory
SendGridName == <<"s", "e", "n", "d", "g", "r", "i", "d">>
MailgunName == <<"m", "a", "i", "l", "g", "u", "n">>
NetlifyBlobsName ==
  <<"n", "e", "t", "l", "i", "f", "y", "-", "b", "l", "o", "b", "s">>
ConsoleName == <<"c", "o", "n", "s", "o", "l", "e">>

\* the values of EMAIL_PROVIDER
ProviderEnvs ==
  { Undefined,
    Str(<<>>),
    Str(ConsoleName),
    Str(<<"s", "m", "t", "p">>),
    Str(SendGridName \o <<" ">>),
    Str(SendGridName),
    Str(<<"S", "e", "n", "d", "G", "r", "i", "d">>),
    Str(MailgunName),
    Str(<<"M", "A", "I", "L", "G", "U", "N">>),
    Str(NetlifyBlobsName),
    Str(<<"N", "e", "t", "l", "i", "f", "y", "-", "B", "l", "o", "b", "s">>) }

\* the provider credentials of process.env: all set, only the old
\* EMAIL_API_KEY set, none set
AllKeys ==
  [EMAIL_SENDGRID_API_KEY |-> Str(<<"SG.key">>), EMAIL_API_KEY |-> Undefined,
   EMAIL_MAILGUN_API_KEY |-> Str(<<"key-mg">>),
   EMAIL_MAILGUN_DOMAIN |-> Str(<<"mg.example.org">>)]
OldKey ==
  [EMAIL_SENDGRID_API_KEY |-> Undefined, EMAIL_API_KEY |-> Str(<<"legacy-key">>),
   EMAIL_MAILGUN_API_KEY |-> Undefined, EMAIL_MAILGUN_DOMAIN |-> Undefined]
NoKeys ==
  [EMAIL_SENDGRID_API_KEY |-> Undefined, EMAIL_API_KEY |-> Undefined,
   EMAIL_MAILGUN_API_KEY |-> Undefined, EMAIL_MAILGUN_DOMAIN |-> Undefined]

\* process.env with the given values; EMAIL_FROM, EMAIL_FROM_NAME,
\* MAILGUN_DOMAIN and JWT_SECRET are not set
Env(apiKey, batchSize, provider, keys) ==
  [EMAIL_NETLIFY_BLOBS_API_KEY |-> apiKey,
   EMAIL_NETLIFY_BLOBS_DEFAULT_BATCH_SIZE |-> batchSize,
   EMAIL_PROVIDER |-> provider,
   EMAIL_FROM |-> Undefined,
   EMAIL_FROM_NAME |-> Undefined,
   EMAIL_SENDGRID_API_KEY |-> keys.EMAIL_SENDGRID_API_KEY,
   EMAIL_API_KEY |-> keys.EMAIL_API_KEY,
   EMAIL_MAILGUN_API_KEY |-> keys.EMAIL_MAILGUN_API_KEY,
   EMAIL_MAILGUN_DOMAIN |-> keys.EMAIL_MAILGUN_DOMAIN,
   MAILGUN_DOMAIN |-> Undefined,
   JWT_SECRET |-> Undefined]

\* getEnvVar(newName, oldName)
getEnvVar(e, newName, oldName) == Or(e[newName], e[oldName])

\* new Error(message)
Error(message) == [t |-> "Error", message |-> Str(<<message>>)]

\* a factory whose default is the queue
createEmailServiceDefaultQueue(e) ==
  [strategy |-> "netlify-blobs",
   fromEmail |-> Or(e.EMAIL_FROM, Str(<<"noreply@example.com">>)),
   fromName |-> Or(e.EMAIL_FROM_NAME, Str(<<"Pressure Campaign">>))]

\* createEmailService(): the service it returns, or the Error it throws
createEmailService(e) ==
  LET provider == Or(e.EMAIL_PROVIDER, Str(ConsoleName))
      fromEmail == Or(e.EMAIL_FROM, Str(<<"noreply@example.com">>))
      fromName == Or(e.EMAIL_FROM_NAME, Str(<<"Pressure Campaign">>))
      label == toLowerCase(provider.v)
      sendgridKey == getEnvVar(e, "EMAIL_SENDGRID_API_KEY", "EMAIL_API_KEY")
      mailgunKey == getEnvVar(e, "EMAIL_MAILGUN_API_KEY", "EMAIL_API_KEY")
      mailgunDomain == getEnvVar(e, "EMAIL_MAILGUN_DOMAIN", "MAILGUN_DOMAIN")
  IN CASE label = SendGridName ->
            IF ~Truthy(sendgridKey)
            THEN Error("EMAIL_SENDGRID_API_KEY is required for SendGrid")
            ELSE [strategy |-> "sendgrid", apiKey |-> sendgridKey,
                  fromEmail |-> fromEmail, fromName |-> fromName]
       [] label = MailgunName ->
            IF ~Truthy(mailgunKey) \/ ~Truthy(mailgunDomain)
            THEN Error("EMAIL_MAILGUN_API_KEY and EMAIL_MAILGUN_DOMAIN are required for Mailgun")
            ELSE [strategy |-> "mailgun", apiKey |-> mailgunKey,
                  domain |-> mailgunDomain,
                  fromEmail |-> fromEmail, fromName |-> fromName]
       [] label = NetlifyBlobsName ->
            [strategy |-> "netlify-blobs",
             fromEmail |-> fromEmail, fromName |-> fromName]
       [] OTHER ->
            [strategy |-> "console",
             fromEmail |-> fromEmail, fromName |-> fromName]

\* getCampaign(): the campaign configurations
Campaigns ==
  { [emailSubject |-> Str(<<"Act on clean air">>),
     emailBody |-> Str(<<"Please back the bill.">>),
     description |-> Str(<<"A campaign.">>),
     cc |-> <<Str(<<"press@campaign.org">>)>>,
     bcc |-> <<Str(<<"archive@campaign.org">>)>>],
    [emailSubject |-> Str(<<"Act on clean air">>),
     emailBody |-> Undefined,
     description |-> Str(<<"A campaign.">>),
     cc |-> <<>>,
     bcc |-> <<>>] }

\* the campaign of the deployments whose queue is examined
DefaultCampaign == CHOOSE c \in Campaigns : c.cc = <<>>

(***************************************************************************)
(* State                                                                   *)
(***************************************************************************)
VARIABLES
  env,          \* process.env, read by the handlers
  store,        \* the blob store: key -> stored JSON
  uuids,        \* number of ids uuid() has generated
  now,          \* Date.now()
  sendResult,   \* the EmailResult of the last sendEmail, None before
  faults,       \* number of store operations that have rejected
  pc,           \* where each drain invocation stands
  event,        \* its HandlerEvent
  request,      \* its parsed body
  limit,        \* const limit
  blobs,        \* the keys store.list() returned
  todo,         \* the part of blobs.slice(0, limit) not yet iterated
  emailJob,     \* the job read by store.get, awaiting store.delete
  jobs,         \* const jobs: EmailJob[]
  response,     \* what the invocation returned
  trace,        \* history of the invocation: store operations it issued
  startStore,   \* history: the store when the invocation started
  interfered,   \* history: another call changed the store during it
  claimedBefore,\* history: ids returned by the calls completed before it
  returned,     \* history: per id, the number of 200 responses holding it
  enqueued,     \* history: keys written by successful sendEmail calls
  strategy,     \* history: the strategy of the last sendEmail call
  effects,      \* history: the operations it issued, with their answers
  written,      \* history: per successful setJSON its key, request and job
  campaign,     \* the campaign configuration of the deployment
  siteCalls,    \* number of requests the handlers of the site have served
  call,         \* history: the last of them, with its response
  links,        \* the tokens of the magic links that were sent
  accepted      \* history: the tokens whose MP email was dispatched

vars ==
  <<env, store, uuids, now, sendResult, faults, pc, event, request, limit,
    blobs, todo, emailJob, jobs, response, trace, startStore, interfered,
    claimedBefore, returned, enqueued, strategy, effects, written, campaign,
    siteCalls, call, links, accepted>>

\* what the drain handler neither reads nor writes
mailVars ==
  <<strategy, effects, written, campaign, siteCalls, call, links, accepted>>

NoTrace == [list |-> FALSE, listFailed |-> FALSE, gets |-> {}, read |-> {},
            getFailed |-> {}, deletes |-> {}, deleteFailed |-> {}]

NoResponse == [statusCode |-> 0]

Keys == {uuid(n) : n \in 1..MaxJobs}

NoCall == [handler |-> "none"]

\* the state of a deployment before its first request
Start ==
  /\ store = <<>>
  /\ uuids = 0
  /\ now = 0
  /\ sendResult = None
  /\ faults = 0
  /\ pc = [p \in Procs |-> "idle"]
  /\ event = [p \in Procs |-> None]
  /\ request = [p \in Procs |-> Undefined]
  /\ limit = [p \in Procs |-> Undefined]
  /\ blobs = [p \in Procs |-> <<>>]
  /\ todo = [p \in Procs |-> <<>>]
  /\ emailJob = [p \in Procs |-> Undefined]
  /\ jobs = [p \in Procs |-> <<>>]
  /\ response = [p \in Procs |-> NoResponse]
  /\ trace = [p \in Procs |-> NoTrace]
  /\ startStore = [p \in Procs |-> {}]
  /\ interfered = [p \in Procs |-> FALSE]
  /\ claimedBefore = [p \in Procs |-> {}]
  /\ returned = [k \in Keys |-> 0]
  /\ enqueued = {}
  /\ strategy = "none"
  /\ effects = <<>>
  /\ written = <<>>
  /\ siteCalls = 0
  /\ call = NoCall
  /\ links = {}
  /\ accepted = <<>>

\* a deployment on the queue strategy
Init ==
  /\ env \in {Env(k, b, Str(NetlifyBlobsName), AllKeys) :
                k \in ApiKeyEnvs, b \in BatchSizeEnvs}
  /\ campaign = DefaultCampaign
  /\ Start

(***************************************************************************)
(* Helpers of the actions                                                  *)
(***************************************************************************)
Active(p) == pc[p] # "idle"

\* the store was changed by someone else than q: every other invocation
\* in progress has seen interference
Disturb(q) ==
  interfered' = [p \in Procs |-> interfered[p] \/ (p # q /\ Active(p))]

\* values a rejected store operation may throw: an Error or something else
Thrown == {[t |-> "Error", message |-> Str(<<"store unavailable">>)],
           Str(<<"boom">>)}

\* String(error) for what is not an Error
ErrorMessageOrString(error) ==
  IF error.t \in {"Error", "SyntaxError", "TypeError"} THEN error.message
  ELSE error

\* error instanceof Error ? error.message : 'Unknown error'
ErrorMessage(error) ==
  IF error.t \in {"Error", "SyntaxError", "TypeError"} THEN error.message
  ELSE Str(<<"Unknown error">>)

\* a write that replaces every record of the store
PutOverAll(key, value) ==
  [k \in (DOMAIN store) \cup {key} |-> value]

Put(key, value) ==
  [k \in (DOMAIN store) \cup {key} |-> IF k = key THEN value ELSE store[k]]

\* a delete that resolves without removing the key
RemoveNothing(key) == store

Remove(key) ==
  [k \in (DOMAIN store) \ {key} |-> store[k]]

\* the push left out
PushNothing(jb, job) == jb

\* a push of the envelope of the job only
PushEnvelope(jb, job) ==
  Append(jb, [id |-> job.id, to |-> job.to, subject |-> job.subject])

\* jobs.push(emailJob)
Push(jb, job) == Append(jb, job)

\* the ids of the jobs of a batch
Ids(jb) == {jb[i].id : i \in 1..Len(jb)}

(***************************************************************************)
(* The network strategies                                                  *)
(***************************************************************************)
\* what a rejected fetch, or a rejected read of its response, may throw
NetThrown == {[t |-> "TypeError", message |-> Str(<<"fetch failed">>)],
              Str(<<"aborted">>)}

\* the non-success statuses a provider answers with
ErrorStatuses == {401, 500}

\* one operation a sendEmail call issues, with what it answered
Resolved(op, answer) == [op |-> op, result |-> "resolves", answer |-> answer]
Rejected(op, error) == [op |-> op, result |-> "rejects", error |-> error]

\* an exception that leaves sendEmail
Raised(error) == [raised |-> error]

\* a catch block that throws the error on
SendGridRethrown(error) == Raised(error)

\* the catch block of SendGridEmailService.sendEmail
SendGridCaught(error) ==
  [success |-> FALSE, error |-> ErrorMessage(error)]

\* `SendGrid API error: ${response.status}`
SendGridApiError(status) == Str(<<"SendGrid API error: ", status>>)

\* SendGridEmailService.sendEmail: its runs, each the operations it
\* issues with their answers (log) and the EmailResult it returns
SendGridRuns(svc, options, time) ==
  LET url == Str(<<"https://api.sendgrid.com/v3/mail/send">>)
      to == normalizeRecipients(options.to)
      fetch(answer) == Resolved("fetch", answer) @@ [url |-> url, to |-> to]
  IN {[log |-> <<Rejected("fetch", e) @@ [url |-> url, to |-> to]>>,
       result |-> SendGridCaught(e)] : e \in NetThrown}
     \cup {[log |-> <<fetch([ok |-> FALSE, status |-> s]),
                      Resolved("text", Str(<<"error body">>))>>,
            result |-> [success |-> FALSE, error |-> SendGridApiError(s)]]
             : s \in ErrorStatuses}
     \cup {[log |-> <<fetch([ok |-> FALSE, status |-> 500]), Rejected("text", e)>>,
            result |-> SendGridCaught(e)] : e \in NetThrown}
     \cup {[log |-> <<fetch([ok |-> TRUE, status |-> 202, id |-> h])>>,
            result |-> [success |-> TRUE,
                        messageId |-> Or(h, Str(<<"sendgrid-", time>>))]]
             : h \in {Null, Str(<<"sg-message-1">>)}}

\* the catch block of MailgunEmailService.sendEmail
MailgunCaught(error) ==
  [success |-> FALSE, error |-> ErrorMessage(error)]

\* `Mailgun API error: ${response.status}`
MailgunApiError(status) == Str(<<"Mailgun API error: ", status>>)

\* the values response.json() of Mailgun resolves to
MailgunData == {[t |-> "object", id |-> Str(<<"<mg-1@mg.example.org>">>)],
                [t |-> "object", id |-> Undefined],
                Null}

\* MailgunEmailService.sendEmail: its runs
MailgunRuns(svc, options, time) ==
  LET url == Str(<<"https://api.mailgun.net/v3/">> \o svc.domain.v \o <<"/messages">>)
      to == normalizeRecipients(options.to)
      fetch(answer) == Resolved("fetch", answer) @@ [url |-> url, to |-> to]
  IN {[log |-> <<Rejected("fetch", e) @@ [url |-> url, to |-> to]>>,
       result |-> MailgunCaught(e)] : e \in NetThrown}
     \cup {[log |-> <<fetch([ok |-> FALSE, status |-> s]),
                      Resolved("text", Str(<<"error body">>))>>,
            result |-> [success |-> FALSE, error |-> MailgunApiError(s)]]
             : s \in ErrorStatuses}
     \cup {[log |-> <<fetch([ok |-> FALSE, status |-> 500]), Rejected("text", e)>>,
            result |-> MailgunCaught(e)] : e \in NetThrown}
     \cup {[log |-> <<fetch([ok |-> TRUE, status |-> 200]), Resolved("json", d)>>,
            result |-> IF d = Null
                       THEN MailgunCaught([t |-> "TypeError",
                              message |-> Str(<<"Cannot read properties of null">>)])
                       ELSE [success |-> TRUE, messageId |-> d.id]]
             : d \in MailgunData}
     \cup {[log |-> <<fetch([ok |-> TRUE, status |-> 200]),
                      Rejected("json", [t |-> "SyntaxError",
                                        message |-> Str(<<"Unexpected token">>)])>>,
            result |-> MailgunCaught([t |-> "SyntaxError",
                                      message |-> Str(<<"Unexpected token">>)])]}

\* ConsoleEmailService.sendEmail: it logs and issues no operation
ConsoleRuns(svc, options, time) ==
  {[log |-> <<>>,
    result |-> [success |-> TRUE, messageId |-> Str(<<"console-", time>>)]]}

(***************************************************************************)
(* The campaign site: send-magic-link and verify-and-send                  *)
(***************************************************************************)
\* String.prototype.toUpperCase on a sequence of characters
toUpperCase(s) ==
  [i \in 1..Len(s) |->
     IF \E j \in 1..26 : LowerCase[j] = s[i]
     THEN UpperCase[CHOOSE j \in 1..26 : LowerCase[j] = s[i]]
     ELSE s[i]]

RECURSIVE RemoveSpaces(_)
\* s.replace(/\s+/g, '')
RemoveSpaces(s) ==
  IF s = <<>> THEN <<>>
  ELSE IF IsSpace(Head(s)) THEN RemoveSpaces(Tail(s))
  ELSE <<Head(s)>> \o RemoveSpaces(Tail(s))

\* normalizePostcode
normalizePostcode(postcode) == RemoveSpaces(toUpperCase(postcode))

\* formatPostcode
formatPostcode(postcode) ==
  LET normalized == normalizePostcode(postcode)
      n == Len(normalized)
  IN IF n >= 5
     THEN SubSeq(normalized, 1, n - 3) \o <<" ">> \o SubSeq(normalized, n - 2, n)
     ELSE normalized

\* the MP the site looked up
TheMP ==
  [t |-> "object", name |-> Str(<<"Keir Starmer">>), email |-> Str(<<"mp@parliament.uk">>),
   constituency |-> Str(<<"Holborn">>), party |-> Str(<<"Labour">>)]

\* a submission of the form, as the body of the request carries it
Submission(name, mp) ==
  [name |-> name, email |-> Str(<<"ada@example.com">>),
   postcode |-> Str(<<"s", "w", "1", "a", "1", "a", "a">>), mp |-> mp]

\* what '{}' destructures to
EmptySubmission ==
  [name |-> Undefined, email |-> Undefined, postcode |-> Undefined,
   mp |-> Undefined]

\* the submissions sent to send-magic-link: complete, without a name,
\* without an MP
Submissions ==
  {Submission(Str(<<"Ada Lovelace">>), TheMP),
   Submission(Undefined, TheMP),
   Submission(Str(<<"Ada Lovelace">>), Undefined)}

\* validateName, validateEmail, validatePostcode, validateMPData on the
\* submissions above, whose strings meet the length and pattern rules
validateName(name) ==
  IF ~Truthy(name) \/ name.t # "string"
  THEN [valid |-> FALSE, error |-> Str(<<"Please enter your name">>)]
  ELSE [valid |-> TRUE]
validateEmail(email) ==
  IF ~Truthy(email) \/ email.t # "string"
  THEN [valid |-> FALSE, error |-> Str(<<"Please enter your email address">>)]
  ELSE [valid |-> TRUE]
validatePostcode(postcode) ==
  IF ~Truthy(postcode) \/ postcode.t # "string"
  THEN [valid |-> FALSE, error |-> Str(<<"Please enter your postcode">>)]
  ELSE IF Len(postcode.v) < 5
  THEN [valid |-> FALSE, error |-> Str(<<"Postcode is too short">>)]
  ELSE [valid |-> TRUE]
validateMPData(mp) ==
  IF ~Truthy(mp) \/ mp.t # "object"
  THEN [valid |-> FALSE, error |-> Str(<<"Invalid MP data">>)]
  ELSE IF ~Truthy(mp.name)
  THEN [valid |-> FALSE, error |-> Str(<<"MP name is required">>)]
  ELSE IF ~Truthy(mp.constituency)
  THEN [valid |-> FALSE, error |-> Str(<<"MP constituency is required">>)]
  ELSE IF ~Truthy(mp.email)
  THEN [valid |-> FALSE, error |-> Str(<<"MP email is required">>)]
  ELSE IF ~validateEmail(mp.email).valid
  THEN [valid |-> FALSE, error |-> Str(<<"Invalid MP email address">>)]
  ELSE [valid |-> TRUE]

\* validateUserSubmission
validateUserSubmission(submission) ==
  IF ~validateName(submission.name).valid THEN validateName(submission.name)
  ELSE IF ~validateEmail(submission.email).valid
  THEN validateEmail(submission.email)
  ELSE IF ~validatePostcode(submission.postcode).valid
  THEN validatePostcode(submission.postcode)
  ELSE validateMPData(submission.mp)

\* process.env.JWT_SECRET || 'dev-secret-change-in-production'
jwtSecret(e) ==
  Or(e.JWT_SECRET, Str(<<"dev-secret-change-in-production">>))

\* expiresIn: '1h', in ticks of the clock of the model
ExpiresIn == 1

\* jwt.sign(payload, secret, { expiresIn }) at the given time
jwtSign(payload, secret, time) ==
  [t |-> "jwt", payload |-> payload, key |-> secret,
   iat |-> time, exp |-> time + ExpiresIn]

\* a verification that does not look at the signature
jwtDecodes(token, secret, time) ==
  /\ token.t = "jwt"
  /\ time < token.exp

\* jwt.verify(token, secret) does not throw at the given time
jwtVerifies(token, secret, time) ==
  /\ token.t = "jwt"
  /\ token.key = secret
  /\ time < token.exp

\* the payload send-magic-link signs
MagicLinkPayload(submission) ==
  [email |-> submission.email,
   name |-> submission.name,
   postcode |-> Str(formatPostcode(submission.postcode.v)),
   mpEmail |-> submission.mp.email,
   mpName |-> submission.mp.name,
   constituency |-> submission.mp.constituency,
   party |-> submission.mp.party]

\* a token signed by someone who does not know the secret, and a string
\* that is no token
ForgedToken ==
  jwtSign(MagicLinkPayload(Submission(Str(<<"Mallory">>), TheMP)),
          Str(<<"guess">>), 0)
GarbageToken == Str(<<"garbage">>)

\* the text of a request body: the JSON text of a value, or malformed
Json(value) == [t |-> "json", value |-> value]
Malformed == Str(<<"{bad">>)

\* JSON.parse(event.body || '{}') of a site request: the value, or
\* SyntaxError; empty is what '{}' destructures to
ParseBody(ev, empty) ==
  IF ~Truthy(ev.body) THEN empty
  ELSE IF ev.body.t = "json" THEN ev.body.value
  ELSE SyntaxError

\* the requests sent to send-magic-link
MagicLinkEvents ==
  [httpMethod : {"POST"}, body : {Null, Malformed} \cup {Json(s) : s \in Submissions}]
  \cup [httpMethod : {"GET"},
        body : {Malformed, Json(Submission(Str(<<"Ada Lovelace">>), TheMP))}]

\* the requests sent to verify-and-send by holders of the given tokens
VerifyEvents(tokens) ==
  [httpMethod : {"POST"},
   body : {Null, Malformed, Json(Null)}
          \cup {Json([token |-> t]) : t \in tokens \cup {ForgedToken, GarbageToken}}]
  \cup [httpMethod : {"GET"},
        body : {Malformed} \cup {Json([token |-> t]) : t \in tokens}]

\* the text of the magic-link email: it carries the token
MagicLinkText(name, token) ==
  [t |-> "string", v |-> <<"Hi ">> \o name.v \o <<", please confirm">>,
   link |-> token]

\* the HTML of the magic-link email
MagicLinkHtml(name, token) ==
  [t |-> "string", v |-> <<"<p>Hi ">> \o name.v \o <<"</p>">>, link |-> token]

\* generateMPEmailText
generateMPEmailText(data) ==
  Str(<<"Dear ">> \o data.mpName.v \o <<", your constituent in ">>
      \o data.constituency.v \o <<" (">> \o data.postcode.v \o <<") ">>
      \o data.campaignDescription.v \o <<" Yours sincerely, ">>
      \o data.userName.v \o <<" Email: ">> \o data.userEmail.v)

\* generateMPEmailHtml
generateMPEmailHtml(data) ==
  Str(<<"<p>Dear ">> \o data.mpName.v \o <<",</p><p>">>
      \o data.campaignDescription.v \o <<"</p><p>">>
      \o data.userName.v \o <<" ">> \o data.userEmail.v \o <<"</p>">>)

\* the EmailOptions send-magic-link passes to sendEmail
MagicLinkOptions(submission, token) ==
  [to |-> submission.email, cc |-> Undefined, bcc |-> Undefined,
   subject |-> Str(<<"Confirm your campaign signature">>),
   text |-> MagicLinkText(submission.name, token),
   html |-> MagicLinkHtml(submission.name, token),
   from |-> Undefined, fromName |-> Undefined]

\* a cc list without the constituent
ccListOfCampaign(c, payload) == c.cc

\* const ccList = [...campaign.cc, payload.email]
ccList(c, payload) == Append(c.cc, payload.email)

\* the EmailOptions verify-and-send passes to sendEmail
MPEmailOptions(c, payload) ==
  LET data == [mpName |-> payload.mpName,
               constituency |-> payload.constituency,
               postcode |-> payload.postcode,
               campaignDescription |-> Or(c.emailBody, c.description),
               userName |-> payload.name,
               userEmail |-> payload.email]
  IN [to |-> payload.mpEmail,
      cc |-> IF Len(ccList(c, payload)) > 0 THEN Arr(ccList(c, payload))
             ELSE Undefined,
      bcc |-> IF Len(c.bcc) > 0 THEN Arr(c.bcc) ELSE Undefined,
      subject |-> c.emailSubject,
      text |-> generateMPEmailText(data),
      html |-> generateMPEmailHtml(data),
      from |-> Undefined, fromName |-> Undefined]

(***************************************************************************)
(* NetlifyBlobsEmailService.sendEmail                                      *)
(***************************************************************************)
\* NetlifyBlobsEmailService.sendEmail(options) called when Date.now() is
\* time: what it does to the store and what it returns
QueueSendEmail(svc, options, time) ==
  /\ uuids < MaxJobs
  /\ uuids' = uuids + 1
  /\ now' = time
  /\ strategy' = "netlify-blobs"
  /\ LET jobId == uuid(uuids + 1)
         job == EmailJob(svc, jobId, options, time)
     IN \/ \* store.setJSON resolves
           /\ store' = Put(jobId, JSONObject(job))
           /\ sendResult' = Some([success |-> TRUE, messageId |-> jobId])
           /\ effects' = <<Resolved("setJSON", Undefined) @@ [key |-> jobId]>>
           /\ written' = Append(written, [key |-> jobId, options |-> options,
                                          job |-> job])
           /\ enqueued' = enqueued \cup {jobId}
           /\ Disturb("sendEmail")
           /\ UNCHANGED faults
        \/ \* store.setJSON rejects
           /\ faults < MaxFaults
           /\ faults' = faults + 1
           /\ \E error \in Thrown :
                /\ sendResult' = Some([success |-> FALSE, error |-> ErrorMessage(error)])
                /\ effects' = <<Rejected("setJSON", error) @@ [key |-> jobId]>>
           /\ UNCHANGED <<store, enqueued, interfered, written>>

\* sendEmail(options) of the queue service, called by another process
sendEmail(options, time) ==
  /\ QueueSendEmail(QueueService, options, time)
  /\ UNCHANGED <<env, pc, event, request, limit, blobs, todo, emailJob, jobs,
                 response, trace, startStore, claimedBefore, returned,
                 campaign, siteCalls, call, links, accepted>>

\* a sendEmail call of an upstream handler; the clock has advanced since the
\* call before
Enqueue == \E options \in QueuedOptions : sendEmail(options, now + 1)

(***************************************************************************)
(* The process-email-queue handler                                         *)
(***************************************************************************)
Reply(p, r) ==
  /\ pc' = [pc EXCEPT ![p] = "done"]
  /\ response' = [response EXCEPT ![p] = r]

Ok(jb) == [statusCode |-> 200, jobs |-> jb, returned |-> Len(jb)]

Failure(error) ==
  [statusCode |-> 500, error |-> Str(<<"Failed to process request">>),
   message |-> ErrorMessage(error)]

\* the loop over blobs.slice(0, limit) with td left to iterate and jb
\* collected: the next store.get, or the 200 response after the last key
Iterate(p, td, jb) ==
  /\ todo' = [todo EXCEPT ![p] = td]
  /\ jobs' = [jobs EXCEPT ![p] = jb]
  /\ emailJob' = [emailJob EXCEPT ![p] = Undefined]
  /\ IF td = <<>>
     THEN /\ Reply(p, Ok(jb))
          /\ returned' = [k \in Keys |->
                            returned[k] + IF k \in Ids(jb) THEN 1 ELSE 0]
     ELSE /\ pc' = [pc EXCEPT ![p] = "get"]
          /\ UNCHANGED <<response, returned>>

\* the handler up to its first await
Invoke(p, ev) ==
  /\ UNCHANGED mailVars
  /\ pc[p] = "idle"
  /\ event' = [event EXCEPT ![p] = Some(ev)]
  /\ trace' = [trace EXCEPT ![p] = NoTrace]
  /\ startStore' = [startStore EXCEPT ![p] = DOMAIN store]
  /\ interfered' = [interfered EXCEPT ![p] = FALSE]
  /\ claimedBefore' = [claimedBefore EXCEPT ![p] = {k \in Keys : returned[k] > 0}]
  /\ IF ev.httpMethod # "POST"
     THEN /\ Reply(p, [statusCode |-> 405, error |-> Str(<<"Method not allowed">>)])
          /\ UNCHANGED <<request, limit>>
     ELSE IF ~validateApiKey(ev, env)
     THEN /\ Reply(p, [statusCode |-> 401, error |-> Str(<<"Unauthorized">>)])
          /\ UNCHANGED <<request, limit>>
     ELSE LET parsed == ParseRequest(ev)
          IN IF parsed = SyntaxError
             THEN /\ Reply(p, Failure([t |-> "SyntaxError",
                                       message |-> Str(<<"Unexpected token">>)]))
                  /\ UNCHANGED <<request, limit>>
             ELSE IF LimitThrows(parsed)
             THEN /\ Reply(p, Failure([t |-> "TypeError",
                                       message |-> Str(<<"Cannot read properties of null">>)]))
                  /\ request' = [request EXCEPT ![p] = parsed]
                  /\ UNCHANGED limit
             ELSE /\ request' = [request EXCEPT ![p] = parsed]
                  /\ limit' = [limit EXCEPT ![p] = EffectiveLimit(parsed, env)]
                  /\ pc' = [pc EXCEPT ![p] = "list"]
                  /\ UNCHANGED response
  /\ UNCHANGED <<env, store, uuids, now, sendResult, faults, blobs, todo,
                 emailJob, jobs, returned, enqueued>>

\* a loop over every key listed, the limit left aside
ListUnsliced(p) ==
  /\ UNCHANGED mailVars
  /\ pc[p] = "list"
  /\ trace' = [trace EXCEPT ![p].list = TRUE]
  /\ \E order \in Perms(DOMAIN store) :
       /\ blobs' = [blobs EXCEPT ![p] = order]
       /\ Iterate(p, order, <<>>)
  /\ UNCHANGED <<env, store, uuids, now, sendResult, faults, event, request,
                 limit, startStore, interfered, claimedBefore, enqueued>>

\* await store.list(), and the code up to the next await
List(p) ==
  /\ UNCHANGED mailVars
  /\ pc[p] = "list"
  /\ trace' = [trace EXCEPT ![p].list = TRUE]
  /\ \E order \in Perms(DOMAIN store) :
       /\ blobs' = [blobs EXCEPT ![p] = order]
       /\ Iterate(p, Slice(order, limit[p]), <<>>)
  /\ UNCHANGED <<env, store, uuids, now, sendResult, faults, event, request,
                 limit, startStore, interfered, claimedBefore, enqueued>>

\* a rejected store.list taken for an empty queue
ListFailsSwallowed(p) ==
  /\ UNCHANGED mailVars
  /\ pc[p] = "list"
  /\ faults < MaxFaults
  /\ faults' = faults + 1
  /\ trace' = [trace EXCEPT ![p].list = TRUE, ![p].listFailed = TRUE]
  /\ Iterate(p, <<>>, <<>>)
  /\ UNCHANGED <<env, store, uuids, now, sendResult, event, request, limit,
                 blobs, startStore, interfered, claimedBefore, enqueued>>

\* store.list rejects: the outer catch block answers 500
ListFails(p) ==
  /\ UNCHANGED mailVars
  /\ pc[p] = "list"
  /\ faults < MaxFaults
  /\ faults' = faults + 1
  /\ trace' = [trace EXCEPT ![p].list = TRUE, ![p].listFailed = TRUE]
  /\ \E error \in Thrown : Reply(p, Failure(error))
  /\ UNCHANGED <<env, store, uuids, now, sendResult, event, request, limit,
                 blobs, todo, emailJob, jobs, startStore, interfered,
                 claimedBefore, returned, enqueued>>

\* a get that takes an absent key for a record and goes on to delete it
GetAbsentDeletes(p) ==
  /\ UNCHANGED mailVars
  /\ pc[p] = "get"
  /\ LET key == Head(todo[p])
     IN /\ emailJob' = [emailJob EXCEPT ![p] =
                          IF key \in DOMAIN store THEN store[key] ELSE [id |-> key]]
        /\ trace' = [trace EXCEPT ![p].gets = @ \cup {key},
                                  ![p].read = @ \cup (DOMAIN store \cap {key})]
        /\ pc' = [pc EXCEPT ![p] = "delete"]
  /\ UNCHANGED <<env, store, uuids, now, sendResult, faults, event, request,
                 limit, blobs, todo, jobs, response, returned, startStore,
                 interfered, claimedBefore, enqueued>>

\* await store.get(blob.key, { type: 'json' })
Get(p) ==
  /\ UNCHANGED mailVars
  /\ pc[p] = "get"
  /\ LET key == Head(todo[p])
     IN /\ \/ \* the key is there
              /\ key \in DOMAIN store
              /\ trace' = [trace EXCEPT ![p].gets = @ \cup {key},
                                        ![p].read = @ \cup {key}]
              /\ emailJob' = [emailJob EXCEPT ![p] = store[key]]
              /\ pc' = [pc EXCEPT ![p] = "delete"]
              /\ UNCHANGED <<todo, jobs, response, returned, faults>>
           \/ \* the key is gone: get resolves to null, continue
              /\ key \notin DOMAIN store
              /\ trace' = [trace EXCEPT ![p].gets = @ \cup {key}]
              /\ Iterate(p, Tail(todo[p]), jobs[p])
              /\ UNCHANGED faults
  /\ UNCHANGED <<env, store, uuids, now, sendResult, event, request, limit,
                 blobs, startStore, interfered, claimedBefore, enqueued>>

\* a rejected store.get that ends the whole call
GetFailsAborts(p) ==
  /\ UNCHANGED mailVars
  /\ pc[p] = "get"
  /\ faults < MaxFaults
  /\ faults' = faults + 1
  /\ trace' = [trace EXCEPT ![p].gets = @ \cup {Head(todo[p])},
                            ![p].getFailed = @ \cup {Head(todo[p])}]
  /\ \E error \in Thrown : Reply(p, Failure(error))
  /\ UNCHANGED <<env, store, uuids, now, sendResult, event, request, limit,
                 blobs, todo, emailJob, jobs, startStore, interfered,
                 claimedBefore, returned, enqueued>>

\* store.get rejects: the catch block logs, the loop goes on
GetFails(p) ==
  /\ UNCHANGED mailVars
  /\ pc[p] = "get"
  /\ faults < MaxFaults
  /\ faults' = faults + 1
  /\ LET key == Head(todo[p])
     IN /\ trace' = [trace EXCEPT ![p].gets = @ \cup {key},
                                  ![p].getFailed = @ \cup {key}]
        /\ Iterate(p, Tail(todo[p]), jobs[p])
  /\ UNCHANGED <<env, store, uuids, now, sendResult, event, request, limit,
                 blobs, startStore, interfered, claimedBefore, enqueued>>

\* await store.delete(blob.key); jobs.push(emailJob)
Delete(p) ==
  /\ UNCHANGED mailVars
  /\ pc[p] = "delete"
  /\ LET key == Head(todo[p])
     IN /\ trace' = [trace EXCEPT ![p].deletes = @ \cup {key}]
        /\ store' = Remove(key)
        /\ Iterate(p, Tail(todo[p]), Push(jobs[p], emailJob[p]))
        /\ Disturb(p)
  /\ UNCHANGED <<env, uuids, now, sendResult, faults, event, request, limit,
                 blobs, startStore, claimedBefore, enqueued>>

\* the job pushed before its delete is awaited
DeleteFailsPushes(p) ==
  /\ UNCHANGED mailVars
  /\ pc[p] = "delete"
  /\ faults < MaxFaults
  /\ faults' = faults + 1
  /\ trace' = [trace EXCEPT ![p].deletes = @ \cup {Head(todo[p])},
                            ![p].deleteFailed = @ \cup {Head(todo[p])}]
  /\ Iterate(p, Tail(todo[p]), Push(jobs[p], emailJob[p]))
  /\ UNCHANGED <<env, store, uuids, now, sendResult, event, request, limit,
                 blobs, startStore, interfered, claimedBefore, enqueued>>

\* store.delete rejects: the catch block logs, jobs.push is not reached
DeleteFails(p) ==
  /\ UNCHANGED mailVars
  /\ pc[p] = "delete"
  /\ faults < MaxFaults
  /\ faults' = faults + 1
  /\ LET key == Head(todo[p])
     IN /\ trace' = [trace EXCEPT ![p].deletes = @ \cup {key},
                                  ![p].deleteFailed = @ \cup {key}]
        /\ Iterate(p, Tail(todo[p]), jobs[p])
  /\ UNCHANGED <<env, store, uuids, now, sendResult, event, request, limit,
                 blobs, startStore, interfered, claimedBefore, enqueued>>

\* the response has been delivered; the invocation is over
Return(p) ==
  /\ UNCHANGED mailVars
  /\ pc[p] = "done"
  /\ pc' = [pc EXCEPT ![p] = "idle"]
  /\ event' = [event EXCEPT ![p] = None]
  /\ request' = [request EXCEPT ![p] = Undefined]
  /\ limit' = [limit EXCEPT ![p] = Undefined]
  /\ blobs' = [blobs EXCEPT ![p] = <<>>]
  /\ todo' = [todo EXCEPT ![p] = <<>>]
  /\ emailJob' = [emailJob EXCEPT ![p] = Undefined]
  /\ jobs' = [jobs EXCEPT ![p] = <<>>]
  /\ response' = [response EXCEPT ![p] = NoResponse]
  /\ trace' = [trace EXCEPT ![p] = NoTrace]
  /\ startStore' = [startStore EXCEPT ![p] = {}]
  /\ interfered' = [interfered EXCEPT ![p] = FALSE]
  /\ claimedBefore' = [claimedBefore EXCEPT ![p] = {}]
  /\ UNCHANGED <<env, store, uuids, now, sendResult, faults, returned, enqueued>>

\* One drain invocation at a time, any request, with sendEmail calls of
\* other processes and store faults at every await.
Next ==
  \/ Enqueue
  \/ \E ev \in Events : Invoke("d1", ev)
  \/ List("d1")
  \/ ListFails("d1")
  \/ Get("d1")
  \/ GetFails("d1")
  \/ Delete("d1")
  \/ DeleteFails("d1")
  \/ Return("d1")

Spec == Init /\ [][Next]_vars

\* the requests of two consumers that poll the endpoint with the secret
ConsumerEvents ==
  [httpMethod : {"POST"}, headers : {GoodAuth},
   body : {Null, Str(<<"{\"limit\":1}">>)}]

InitConcurrent ==
  /\ Init
  /\ env.EMAIL_NETLIFY_BLOBS_API_KEY = Secret

EnqueueRaced == uuids < MaxRacedJobs /\ Enqueue

\* Two drain invocations in progress at once, one call each, on a store
\* without faults.
NextConcurrent ==
  \/ EnqueueRaced
  \/ \E p \in Procs : \E ev \in ConsumerEvents : Invoke(p, ev)
  \/ \E p \in Procs : List(p)
  \/ \E p \in Procs : Get(p)
  \/ \E p \in Procs : Delete(p)

SpecConcurrent == InitConcurrent /\ [][NextConcurrent]_vars

InitRace ==
  /\ InitConcurrent
  /\ env.EMAIL_NETLIFY_BLOBS_DEFAULT_BATCH_SIZE = Undefined

\* the requests of a consumer that takes a whole batch and of one that
\* takes one record at a time
RaceEvent(p) ==
  [httpMethod |-> "POST", headers |-> GoodAuth,
   body |-> IF p = "d1" THEN Null ELSE Str(<<"{\"limit\":1}">>)]

\* Two drain invocations in progress at once on a store whose get may
\* reject.
NextRace ==
  \/ EnqueueRaced
  \/ \E p \in Procs : Invoke(p, RaceEvent(p))
  \/ \E p \in Procs : List(p)
  \/ \E p \in Procs : Get(p)
  \/ \E p \in Procs : GetFails(p)
  \/ \E p \in Procs : Delete(p)

SpecRace == InitRace /\ [][NextRace]_vars

\* a step of the consumer that polls the endpoint: it sends a request, or
\* the call it has made goes on to its next await or returns
Poll(p) ==
  \/ \E ev \in ConsumerEvents : Invoke(p, ev)
  \/ List(p)
  \/ Get(p)
  \/ Delete(p)
  \/ Return(p)

NextPolled ==
  \/ Enqueue
  \/ \E ev \in ConsumerEvents : Invoke("d1", ev)
  \/ List("d1")
  \/ Get("d1")
  \/ Delete("d1")
  \/ Return("d1")

\* A consumer that never stops polling a store without faults: the
\* runtime runs every call to its end, and the consumer always calls again.
SpecPolled == Init /\ [][NextPolled]_vars /\ WF_vars(Poll("d1"))

\* a sendEmail call of a caller that uses any form of the send request
Send == \E options \in SendOptions : sendEmail(options, now + 1)

\* The queue strategy alone, called with every form of the send request.
SpecSend == Init /\ [][Send]_vars

\* the requests of callers that present every kind of credentials
CallerEvents ==
  [httpMethod : {"POST"}, headers : HeaderSets, body : {Null}]

NextGuarded ==
  \/ Enqueue
  \/ \E ev \in CallerEvents : Invoke("d1", ev)
  \/ List("d1")
  \/ Get("d1")
  \/ Delete("d1")
  \/ Return("d1")

\* The drain endpoint called with and without the secret, on a store
\* without faults.
SpecGuarded == Init /\ [][NextGuarded]_vars

(***************************************************************************)
(* The handlers of the campaign site                                       *)
(***************************************************************************)
\* emailService.sendEmail(options) on the service the factory returned
ServiceSendEmail(svc, options, time) ==
  \/ /\ svc.strategy = "netlify-blobs"
     /\ QueueSendEmail(svc, options, time)
  \/ /\ svc.strategy # "netlify-blobs"
     /\ \E run \in (CASE svc.strategy = "sendgrid" -> SendGridRuns(svc, options, time)
                      [] svc.strategy = "mailgun" -> MailgunRuns(svc, options, time)
                      [] OTHER -> ConsoleRuns(svc, options, time)) :
          /\ sendResult' = Some(run.result)
          /\ effects' = run.log
     /\ strategy' = svc.strategy
     /\ now' = time
     /\ UNCHANGED <<store, uuids, faults, enqueued, interfered, written>>

\* a handler that serves every method
isAnyMethod(ev) == TRUE

\* the method check of the site handlers: event.httpMethod is 'POST'
isPost(ev) == ev.httpMethod = "POST"

MethodNotAllowed == [statusCode |-> 405, error |-> Str(<<"Method not allowed">>)]
InternalServerError == [statusCode |-> 500, error |-> Str(<<"Internal server error">>)]

\* the handler returns without having called sendEmail; time is what the
\* clock read when jwt.sign or jwt.verify looked at it, and the reading
\* before when the handler returns without looking at the clock
ReturnEarly(h, ev, time, r) ==
  /\ call' = [handler |-> h, event |-> ev, at |-> time, response |-> r,
              sent |-> None, log |-> <<>>]
  /\ now' = time
  /\ UNCHANGED <<store, uuids, sendResult, faults, enqueued, interfered,
                 written, effects, strategy, links, accepted>>

\* the response after await emailService.sendEmail: 500 from the catch
\* block when it threw, failed when !result.success, else ok
AfterSend(result, ok, failed) ==
  IF "raised" \in DOMAIN result THEN InternalServerError
  ELSE IF ~result.success THEN failed
  ELSE ok

\* handler (send-magic-link), called when Date.now() is time
sendMagicLink(ev, time) ==
  /\ siteCalls' = siteCalls + 1
  /\ LET h == "send-magic-link"
         parsed == ParseBody(ev, EmptySubmission)
     IN IF ~isPost(ev) THEN ReturnEarly(h, ev, now, MethodNotAllowed)
        ELSE IF parsed = SyntaxError THEN ReturnEarly(h, ev, now, InternalServerError)
        ELSE IF ~validateUserSubmission(parsed).valid
        THEN ReturnEarly(h, ev, now, [statusCode |-> 400,
                                 error |-> validateUserSubmission(parsed).error])
        ELSE LET token == jwtSign(MagicLinkPayload(parsed), jwtSecret(env), time)
                 svc == createEmailService(env)
                 options == MagicLinkOptions(parsed, token)
             IN IF "strategy" \notin DOMAIN svc
                THEN ReturnEarly(h, ev, time, InternalServerError)
                ELSE /\ ServiceSendEmail(svc, options, time)
                     /\ call' =
                          [handler |-> h, event |-> ev, at |-> time,
                           sent |-> Some(options), log |-> effects',
                           response |->
                             AfterSend(sendResult'[1],
                               [statusCode |-> 200, success |-> TRUE,
                                message |-> Str(<<"Magic link sent to your email">>)],
                               [statusCode |-> 500,
                                error |-> Str(<<"Failed to send confirmation email">>)])]
                     /\ links' = IF call'.response.statusCode = 200
                                 THEN links \cup {token} ELSE links
                     /\ UNCHANGED accepted
  /\ UNCHANGED <<env, campaign, pc, event, request, limit, blobs, todo, emailJob,
                 jobs, response, trace, startStore, claimedBefore, returned>>

\* handler (verify-and-send), called when Date.now() is time
verifyAndSend(ev, time) ==
  /\ siteCalls' = siteCalls + 1
  /\ LET h == "verify-and-send"
         parsed == ParseBody(ev, [token |-> Undefined])
     IN IF ~isPost(ev) THEN ReturnEarly(h, ev, now, MethodNotAllowed)
        ELSE IF parsed = SyntaxError \/ parsed = Null
        THEN ReturnEarly(h, ev, now, InternalServerError)
        ELSE IF ~Truthy(parsed.token)
        THEN ReturnEarly(h, ev, now, [statusCode |-> 400,
                                 error |-> Str(<<"Token is required">>)])
        ELSE IF ~jwtVerifies(parsed.token, jwtSecret(env), time)
        THEN ReturnEarly(h, ev, time, [statusCode |-> 401,
                                 error |-> Str(<<"Invalid or expired token">>)])
        ELSE LET svc == createEmailService(env)
                 options == MPEmailOptions(campaign, parsed.token.payload)
             IN IF "strategy" \notin DOMAIN svc
                THEN ReturnEarly(h, ev, time, InternalServerError)
                ELSE /\ ServiceSendEmail(svc, options, time)
                     /\ call' =
                          [handler |-> h, event |-> ev, at |-> time,
                           sent |-> Some(options), log |-> effects',
                           response |->
                             AfterSend(sendResult'[1],
                               [statusCode |-> 200, success |-> TRUE,
                                message |-> Str(<<"Email sent to MP successfully">>)],
                               [statusCode |-> 500,
                                error |-> Str(<<"Failed to send email to MP">>)])]
                     /\ accepted' = IF call'.response.statusCode = 200
                                    THEN Append(accepted, parsed.token)
                                    ELSE accepted
                     /\ UNCHANGED links
  /\ UNCHANGED <<env, campaign, pc, event, request, limit, blobs, todo, emailJob,
                 jobs, response, trace, startStore, claimedBefore, returned>>

\* the deployments of the site: every provider name with the credentials
\* set, the network providers also with the old or no credentials
SiteEnvs ==
  {Env(Secret, Undefined, p, AllKeys) : p \in ProviderEnvs}
  \cup {Env(Secret, Undefined, p, k) :
          p \in {Str(SendGridName), Str(MailgunName)}, k \in {OldKey, NoKeys}}

InitSite ==
  /\ env \in SiteEnvs
  /\ campaign \in Campaigns
  /\ Start

\* the requests sent to the drain endpoint of the site
SiteDrainEvents ==
  {[httpMethod |-> "GET", headers |-> NoAuth, body |-> Str(<<"{limit">>)],
   [httpMethod |-> "POST", headers |-> GoodAuth, body |-> Null]}

\* The three endpoints of one deployment, called one after the other; the
\* clock may or may not have ticked between two calls.
NextSite ==
  \/ /\ siteCalls < MaxSiteCalls
     /\ \E ev \in MagicLinkEvents : \E time \in {now, now + 1} :
          sendMagicLink(ev, time)
  \/ /\ siteCalls < MaxSiteCalls
     /\ \E ev \in VerifyEvents(links) : \E time \in {now, now + 1} :
          verifyAndSend(ev, time)
  \/ \E ev \in SiteDrainEvents : Invoke("d1", ev)
  \/ List("d1")
  \/ Get("d1")
  \/ Delete("d1")
  \/ Return("d1")

SpecSite == InitSite /\ [][NextSite]_vars

\* the deployments in which a magic link is followed: on the console
\* strategy and on the queue
LinkEnvs ==
  {Env(Secret, Undefined, p, AllKeys) : p \in {Undefined, Str(NetlifyBlobsName)}}

InitLinks ==
  /\ env \in LinkEnvs
  /\ campaign \in Campaigns
  /\ Start

\* send-magic-link and verify-and-send of one deployment, called one after
\* the other by the holders of the links sent so far.
NextLinks ==
  \/ /\ siteCalls < MaxLinkCalls
     /\ \E ev \in MagicLinkEvents : \E time \in {now, now + 1} :
          sendMagicLink(ev, time)
  \/ /\ siteCalls < MaxLinkCalls
     /\ \E ev \in VerifyEvents(links) : \E time \in {now, now + 1} :
          verifyAndSend(ev, time)

SpecLinks == InitLinks /\ [][NextLinks]_vars

(***************************************************************************)
(* Properties of the drain endpoint                                        *)
(***************************************************************************)
Answered(p, status) == pc[p] = "done" /\ response[p].statusCode = status

\* the keys the loop of the invocation iterates over
Selected(p) == SeqToSet(Slice(blobs[p], limit[p]))

\* the invocation met no rejected get or delete
NoKeyFault(p) == trace[p].getFailed = {} /\ trace[p].deleteFailed = {}

\* C1: when a drain call answers 200, every record of the returned batch
\* is no longer in the store.
DrainPostCondition ==
  \A p \in Procs :
    Answered(p, 200) => \A k \in Ids(response[p].jobs) : k \notin DOMAIN store

DrainPostConditionWitness ==
  \E p \in Procs : Answered(p, 200) /\ Len(response[p].jobs) >= 2

\* C2: no record id is in the batches of two different drain calls, however
\* the store operations of concurrent calls interleave.
NoDuplicateClaim ==
  \A k \in Keys : returned[k] <= 1

\* each enqueued record is in the store, in a batch already answered, or in
\* the batch a call in progress is collecting
EnqueuedAccountedFor ==
  \A k \in enqueued :
    \/ k \in DOMAIN store
    \/ returned[k] > 0
    \/ \E p \in Procs : pc[p] \in {"get", "delete"} /\ k \in Ids(jobs[p])

\* a step that removes a key is the delete of a drain call that pushes it
OnlyDrainRemoves ==
  \A k \in DOMAIN store :
    k \notin DOMAIN store' =>
      \E p \in Procs : /\ pc[p] = "delete"
                       /\ Head(todo[p]) = k
                       /\ k \in Ids(jobs'[p])
                       /\ (pc'[p] = "done" => k \in Ids(response'[p].jobs))

\* the 200 response carries the jobs collected
BatchIsCollected ==
  \A p \in Procs : Answered(p, 200) => response[p].jobs = jobs[p]

\* C3: every record enqueued is in the store, or in the batch of a drain
\* call (answered, or being collected by a call in progress which answers
\* with it), and a key leaves the store only by the delete of a drain call
\* that puts its record in its batch.
DeletedIffInBatch ==
  /\ [](EnqueuedAccountedFor /\ BatchIsCollected)
  /\ [][OnlyDrainRemoves]_vars

DeletedIffInBatchWitness ==
  /\ \A p \in Procs : pc[p] = "idle"
  /\ \E k \in enqueued : k \notin DOMAIN store /\ returned[k] > 0
  /\ \E k \in enqueued : k \in DOMAIN store
  /\ faults > 0

\* C4: a drain call returns no id that a drain call completed before it
\* started has returned.
AtMostOneClaim ==
  \A p \in Procs :
    Answered(p, 200) => Ids(response[p].jobs) \cap claimedBefore[p] = {}

AtMostOneClaimWitness ==
  \E p \in Procs :
    /\ Answered(p, 200)
    /\ claimedBefore[p] # {}
    /\ response[p].jobs # <<>>

\* the request has no limit or a positive integer limit
ValidLimit(p) ==
  /\ request[p].t = "object"
  /\ \/ request[p].limit = Undefined
     \/ request[p].limit.t = "number" /\ request[p].limit.v > 0

\* the effective limit as the contract defines it
ClaimedLimit(p) ==
  IF request[p].limit # Undefined THEN request[p].limit.v
  ELSE IF env.EMAIL_NETLIFY_BLOBS_DEFAULT_BATCH_SIZE = Undefined THEN 10
  ELSE IF env.EMAIL_NETLIFY_BLOBS_DEFAULT_BATCH_SIZE = Str(<<"2">>) THEN 2
  ELSE 3

\* C5: without store faults and without concurrent calls, a drain over K
\* pending records with effective limit L (the limit of the request, or
\* the configured default batch size, 10 by default, when the request has
\* none) returns min(K, L) records and leaves K - min(K, L) in the store.
DrainRemovesAndIsBounded ==
  \A p \in Procs :
    (Answered(p, 200) /\ ValidLimit(p) /\ NoKeyFault(p) /\ ~interfered[p]) =>
      LET K == Cardinality(startStore[p])
          L == ClaimedLimit(p)
      IN /\ Len(response[p].jobs) = Min(K, L)
         /\ response[p].returned = Min(K, L)
         /\ Cardinality(DOMAIN store) = K - Min(K, L)
         /\ DOMAIN store \subseteq startStore[p]

DrainIsBoundedWitness ==
  \E p \in Procs :
    /\ Answered(p, 200) /\ ValidLimit(p) /\ NoKeyFault(p) /\ ~interfered[p]
    /\ Cardinality(startStore[p]) > ClaimedLimit(p)
    /\ request[p].limit = Undefined
    /\ Cardinality(DOMAIN store) = 1

\* the header values that present the secret
AcceptedCredentials ==
  {Secret.v, Bearer \o Sp \o Secret.v,
   <<"b", "E", "A", "R", "E", "R">> \o Sp \o Sp \o Secret.v}

NonMatching(h) == h = Undefined \/ h.v \notin AcceptedCredentials

Unauthenticated(p) ==
  /\ pc[p] # "idle"
  /\ event[p][1].httpMethod = "POST"
  /\ Truthy(env.EMAIL_NETLIFY_BLOBS_API_KEY)
  /\ NonMatching(event[p][1].headers.authorization)
  /\ NonMatching(event[p][1].headers.Authorization)

\* C6: with a secret configured, a POST whose Authorization header is
\* missing or does not match is answered 401 and issues no list, get or
\* delete; the store holds the same records before and after.
AuthGate ==
  \A p \in Procs :
    Unauthenticated(p) =>
      /\ Answered(p, 401)
      /\ trace[p] = NoTrace
      /\ startStore[p] \subseteq DOMAIN store
      /\ ~interfered[p] => DOMAIN store = startStore[p]

AuthGateWitness ==
  \E p \in Procs :
    /\ Unauthenticated(p)
    /\ event[p][1].headers.authorization # Undefined
    /\ DOMAIN store # {}

\* C7: a get that fails is skipped: no delete is issued for its key, the
\* record stays in the store and is not returned; every other selected key
\* is read, deleted and returned, and the call answers 200.  Three pending
\* records, limit 3 and one failing get give a batch of 2 and 1 key left.
GetFailureIsScoped ==
  \A p \in Procs :
    (pc[p] = "done" /\ trace[p].getFailed # {}) =>
      /\ response[p].statusCode = 200
      /\ \A k \in trace[p].getFailed :
           /\ k \notin trace[p].deletes
           /\ k \notin Ids(response[p].jobs)
           /\ k \in DOMAIN store
      /\ \A k \in Selected(p) \ trace[p].getFailed :
           /\ k \in trace[p].gets
           /\ k \notin trace[p].deleteFailed =>
                /\ k \in trace[p].deletes
                /\ k \in Ids(response[p].jobs)
                /\ k \notin DOMAIN store
      /\ ( /\ Cardinality(startStore[p]) = 3
           /\ ~interfered[p]
           /\ Cardinality(Selected(p)) = 3
           /\ Cardinality(trace[p].getFailed) = 1
           /\ trace[p].deleteFailed = {} )
         => /\ response[p].returned = 2
            /\ Cardinality(DOMAIN store) = 1

GetFailureIsScopedWitness ==
  \E p \in Procs :
    /\ pc[p] = "done"
    /\ Cardinality(startStore[p]) = 3
    /\ ~interfered[p]
    /\ Cardinality(Selected(p)) = 3
    /\ Cardinality(trace[p].getFailed) = 1
    /\ response[p].returned = 2

\* C8 as stated: every record a drain call reads is in its batch, also when
\* the delete that follows the read fails.
EveryReadIsReturned ==
  \A p \in Procs :
    Answered(p, 200) => trace[p].read \subseteq Ids(response[p].jobs)

\* C8 amended: the batch of a drain call holds the records it read and
\* deleted; a record whose delete fails is not in the batch and stays in
\* the store.
ReadAndDeletedIsReturned ==
  \A p \in Procs :
    Answered(p, 200) =>
      /\ Ids(response[p].jobs) = trace[p].read \ trace[p].deleteFailed
      /\ \A k \in trace[p].read \cap trace[p].deleteFailed : k \in DOMAIN store

ReadAndDeletedIsReturnedWitness ==
  \E p \in Procs :
    /\ Answered(p, 200)
    /\ trace[p].read \cap trace[p].deleteFailed # {}
    /\ response[p].jobs # <<>>

\* C9: when the store cannot list its keys, the call answers 500 with an
\* error and a message, issues no get and no delete, and removes nothing.
ListFailureAborts ==
  \A p \in Procs :
    (pc[p] = "done" /\ trace[p].listFailed) =>
      /\ response[p].statusCode = 500
      /\ {"error", "message"} \subseteq DOMAIN response[p]
      /\ "jobs" \notin DOMAIN response[p]
      /\ trace[p].gets = {} /\ trace[p].deletes = {}
      /\ startStore[p] \subseteq DOMAIN store
      /\ ~interfered[p] => DOMAIN store = startStore[p]

ListFailureAbortsWitness ==
  \E p \in Procs :
    pc[p] = "done" /\ trace[p].listFailed /\ DOMAIN store # {}

\* the bodies with a bad limit or that are not a JSON object
InvalidBodies ==
  { Str(<<"{\"limit\":0}">>), Str(<<"{\"limit\":-1}">>),
    Str(<<"{\"limit\":1.5}">>), Str(<<"{\"limit\":\"abc\"}">>),
    Str(<<"{limit">>), Str(<<"null">>), Str(<<"[]">>) }

\* C10: a drain request whose limit is not a positive integer, or whose
\* body is not a JSON object, is answered 4xx before any store operation.
InvalidInputRejected ==
  \A p \in Procs :
    ( /\ pc[p] # "idle"
      /\ event[p][1].httpMethod = "POST"
      /\ validateApiKey(event[p][1], env)
      /\ event[p][1].body \in InvalidBodies )
    => /\ pc[p] = "done"
       /\ response[p].statusCode \in 400..499
       /\ trace[p] = NoTrace
       /\ startStore[p] \subseteq DOMAIN store

(***************************************************************************)
(* Properties of the handlers and of the delivery strategies               *)
(***************************************************************************)
\* a request to one of the three handlers is answered in this step
DrainAnswers(p) == pc[p] = "idle" /\ pc'[p] = "done"
SiteAnswers == siteCalls' # siteCalls

\* a request with another method than POST touches neither the store nor
\* the delivery backend
NonPostIsInert ==
  /\ SiteAnswers /\ call'.event.httpMethod # "POST" =>
       UNCHANGED <<store, sendResult, effects, written, links>>
  /\ \A p \in Procs :
       DrainAnswers(p) /\ event'[p][1].httpMethod # "POST" =>
         UNCHANGED <<store, sendResult, effects, written, links>>

\* C11: each of the three handlers (drain, verify-and-send,
\* send-magic-link) answers a request whose method is not POST with 405
\* 'Method not allowed', whatever its credentials and its body, without a
\* store operation and without a sendEmail call.
OnlyPostAccepted ==
  /\ [](\A p \in Procs :
          pc[p] = "done" /\ event[p][1].httpMethod # "POST" =>
            /\ response[p] = MethodNotAllowed
            /\ trace[p] = NoTrace)
  /\ [](call.handler # "none" /\ call.event.httpMethod # "POST" =>
          /\ call.response = MethodNotAllowed
          /\ call.sent = None
          /\ call.log = <<>>)
  /\ [][NonPostIsInert]_vars

OnlyPostAcceptedWitness ==
  /\ call.handler = "verify-and-send"
  /\ call.event.httpMethod = "GET"
  /\ call.event.body = Malformed
  /\ store # <<>>
  /\ Answered("d1", 405)
  /\ event["d1"][1].headers = NoAuth

\* a sendEmail call of the queue strategy returns in this step
QueueSendReturns == uuids' # uuids

\* C12: a successful sendEmail of the queue strategy issues one operation,
\* a setJSON under an id no record was ever stored under; it adds that one
\* key to the store and leaves every other key alone, and it returns
\* success with a messageId equal to the key and to the id of the record.
QueueWritePath ==
  [][QueueSendReturns /\ sendResult'[1].success =>
       LET id == sendResult'[1].messageId
       IN /\ id \notin DOMAIN store
          /\ id \notin enqueued
          /\ DOMAIN store' = DOMAIN store \cup {id}
          /\ \A k \in DOMAIN store : store'[k] = store[k]
          /\ store'[id].id = id
          /\ Len(effects') = 1
          /\ effects'[1].op = "setJSON"
          /\ effects'[1].result = "resolves"
          /\ effects'[1].key = id]_vars

QueueWritePathWitness ==
  /\ strategy = "netlify-blobs"
  /\ sendResult # None
  /\ sendResult[1].success
  /\ sendResult[1].messageId \in DOMAIN store
  /\ Cardinality(DOMAIN store) >= 2

\* C13: when the setJSON of a sendEmail call of the queue strategy
\* rejects, the call returns success false with the message of the Error
\* thrown, or 'Unknown error' when what was thrown is no Error, and the
\* store is as it was.
EnqueueFailureLeavesNoTrace ==
  [][QueueSendReturns /\ effects'[1].result = "rejects" =>
       /\ store' = store
       /\ sendResult' =
            Some([success |-> FALSE,
                  error |-> IF effects'[1].error.t = "Error"
                            THEN effects'[1].error.message
                            ELSE Str(<<"Unknown error">>)])]_vars

EnqueueFailureLeavesNoTraceWitness ==
  /\ strategy = "netlify-blobs"
  /\ effects # <<>>
  /\ effects[1].result = "rejects"
  /\ effects[1].error.t # "Error"
  /\ sendResult = Some([success |-> FALSE, error |-> Str(<<"Unknown error">>)])
  /\ store # <<>>

\* an EmailResult: success, or failure with an error text
IsSendResult(r) ==
  /\ "raised" \notin DOMAIN r
  /\ "success" \in DOMAIN r
  /\ r.success \in BOOLEAN
  /\ ~r.success => "error" \in DOMAIN r /\ r.error.t = "string"

\* the operation met a failure of the transport or of the store
Failing(e) ==
  \/ e.result = "rejects"
  \/ e.op = "fetch" /\ ~e.answer.ok

\* C14: whatever the store and the network answer, sendEmail of every
\* strategy returns an EmailResult and throws nothing; when an operation
\* it issued rejected or the provider answered a non-success status, the
\* result is success false with an error text.
NoStrategyRaises ==
  sendResult # None =>
    /\ IsSendResult(sendResult[1])
    /\ (\E i \in 1..Len(effects) : Failing(effects[i])) => ~sendResult[1].success

NoStrategyRaisesWitness ==
  /\ strategy = "sendgrid"
  /\ Len(effects) = 2
  /\ effects[2].result = "rejects"
  /\ sendResult # None
  /\ ~sendResult[1].success

\* the provider names that select a network or queue strategy
RecognisedProviders ==
  { Str(SendGridName), Str(<<"S", "e", "n", "d", "G", "r", "i", "d">>),
    Str(MailgunName), Str(<<"M", "A", "I", "L", "G", "U", "N">>),
    Str(NetlifyBlobsName),
    Str(<<"N", "e", "t", "l", "i", "f", "y", "-", "B", "l", "o", "b", "s">>) }

\* C15: in a deployment whose EMAIL_PROVIDER is absent or is none of
\* sendgrid, mailgun, netlify-blobs in any letter case, every send goes to
\* the console strategy: no operation is issued to the network or the
\* store, and the store stays empty.
FailSafeDefault ==
  env.EMAIL_PROVIDER \notin RecognisedProviders =>
    /\ strategy \in {"none", "console"}
    /\ effects = <<>>
    /\ call.handler # "none" => call.log = <<>>
    /\ store = <<>>
    /\ written = <<>>

FailSafeDefaultWitness ==
  /\ env.EMAIL_PROVIDER = Str(SendGridName \o <<" ">>)
  /\ call.handler = "verify-and-send"
  /\ call.sent # None
  /\ strategy = "console"
  /\ sendResult[1].success

\* C16: the messageIds returned by the successful sendEmail calls of the
\* queue strategy are pairwise distinct; every record of the store sits
\* under its own id, and the store holds no more keys than there were
\* successful calls.
UniqueMessageIds ==
  /\ \A i, j \in 1..Len(written) : written[i].key = written[j].key => i = j
  /\ \A k \in DOMAIN store : store[k].id = k
  /\ Cardinality(DOMAIN store) <= Len(written)
  /\ Cardinality(enqueued) = Len(written)

UniqueMessageIdsWitness ==
  /\ Len(written) >= 3
  /\ Cardinality(DOMAIN store) >= 2

\* the record stored under the key of w is the job w built, the
\* properties whose value is undefined left out
StoredAsBuilt(w) ==
  LET r == store[w.key]
  IN /\ DOMAIN r \subseteq DOMAIN w.job
     /\ \A f \in DOMAIN w.job :
          IF w.job[f] = Undefined THEN f \notin DOMAIN r
          ELSE f \in DOMAIN r /\ r[f] = w.job[f]

\* C17: as long as a record written by sendEmail is in the store it is
\* the record that call built, with the subject, text and html of that
\* call's request: no later sendEmail and no drain changes it.
NoOverwriteNoMutation ==
  \A i \in 1..Len(written) :
    written[i].key \in DOMAIN store =>
      /\ StoredAsBuilt(written[i])
      /\ \A f \in {"subject", "text", "html"} :
           written[i].options[f] # Undefined =>
             store[written[i].key][f] = written[i].options[f]

NoOverwriteNoMutationWitness ==
  /\ Len(written) = 2
  /\ written[1].key \in DOMAIN store
  /\ written[2].key \in DOMAIN store
  /\ written[1].options.subject # written[2].options.subject
  /\ pc["d1"] = "done"

\* the fields of a message record that a consumer delivers
MessageFields ==
  {"to", "cc", "bcc", "subject", "text", "html", "from", "fromName", "createdAt"}

\* C18: every record of a 200 batch has the id a successful sendEmail
\* returned, and its to, cc, bcc, subject, text, html, from, fromName and
\* createdAt are those of the job that call stored (absent where the job
\* had none).
RoundTripFidelity ==
  \A p \in Procs :
    Answered(p, 200) =>
      \A i \in 1..Len(response[p].jobs) :
        LET r == response[p].jobs[i]
        IN \E j \in 1..Len(written) :
             /\ written[j].key = r.id
             /\ \A f \in MessageFields :
                  IF written[j].job[f] = Undefined THEN f \notin DOMAIN r
                  ELSE f \in DOMAIN r /\ r[f] = written[j].job[f]

RoundTripFidelityWitness ==
  /\ Answered("d1", 200)
  /\ Len(response["d1"].jobs) = 2
  /\ response["d1"].jobs[1].subject # response["d1"].jobs[2].subject
  /\ "cc" \in DOMAIN response["d1"].jobs[1] \/ "cc" \in DOMAIN response["d1"].jobs[2]

\* C19: an id is put in the store at most once, a record in the store
\* does not change, and an id that has left the store is never in it
\* again.
RecordLifeCycle ==
  [][/\ \A k \in DOMAIN store' \ DOMAIN store : k \notin enqueued
     /\ \A k \in DOMAIN store \cap DOMAIN store' : store'[k] = store[k]
     /\ \A k \in enqueued \ DOMAIN store : k \notin DOMAIN store']_vars

RecordLifeCycleWitness ==
  /\ \E k \in enqueued : k \notin DOMAIN store
  /\ store # <<>>
  /\ uuids >= 3

\* C20 as stated: every record in the store has status 'pending' and
\* attempts 0, next to id, to, subject, text, from, fromName and createdAt.
PendingWithZeroAttempts ==
  \A k \in DOMAIN store :
    /\ {"id", "to", "subject", "text", "from", "fromName", "createdAt",
        "status", "attempts"} \subseteq DOMAIN store[k]
    /\ store[k].status = Str(<<"pending">>)
    /\ store[k].attempts = Num(0)

(***************************************************************************)
(* Properties of the stored record, of the site and of the drain loop     *)
(***************************************************************************)
\* the sequence a recipient field of a request stands for
AsSequence(recipients) ==
  IF recipients.t = "array" THEN recipients.v ELSE <<recipients>>

\* C21: the record stored for a send request has its to as a sequence (one
\* address gives a sequence of one, a sequence is kept in order), cc and
\* bcc as sequences when the request has them and absent when it has not,
\* and from and fromName equal to the override of the request when it has
\* one and to the sender identity of the service otherwise.
StoredIsFunctionOfRequest ==
  \A i \in 1..Len(written) :
    written[i].key \in DOMAIN store =>
      LET o == written[i].options
          r == store[written[i].key]
      IN /\ r.to.t = "array"
         /\ r.to.v = AsSequence(o.to)
         /\ \A f \in {"cc", "bcc"} :
              IF o[f] = Undefined THEN f \notin DOMAIN r
              ELSE /\ f \in DOMAIN r
                   /\ r[f].t = "array"
                   /\ r[f].v = AsSequence(o[f])
         /\ r.from = IF o.from = Undefined THEN QueueService.fromEmail ELSE o.from
         /\ r.fromName = IF o.fromName = Undefined THEN QueueService.fromName
                         ELSE o.fromName

StoredIsFunctionOfRequestWitness ==
  \E j, k \in DOMAIN store :
    /\ Len(store[j].to.v) = 2
    /\ store[j].bcc = Arr(<<Str(<<"audit@example.com">>)>>)
    /\ store[j].from = Str(<<"me@example.com">>)
    /\ store[j].fromName = QueueService.fromName
    /\ store[k].to = Arr(<<Str(<<"mp@example.org">>)>>)
    /\ "cc" \notin DOMAIN store[k]
    /\ store[k].from = QueueService.fromEmail

\* C22 as stated: a token that verify-and-send has accepted, and whose MP
\* email it has dispatched, is never accepted again: each token stands for
\* at most one email to the MP.
OneTimeTokens ==
  \A i, j \in 1..Len(accepted) : accepted[i] = accepted[j] => i = j

\* the token a request to verify-and-send carries
TokenOf(ev) ==
  IF ev.body.t = "json" /\ ev.body.value # Null THEN ev.body.value.token
  ELSE Undefined

\* C23: verify-and-send calls sendEmail only for a POST whose token was
\* issued by send-magic-link in a delivered magic link, is signed with the
\* secret of the service and has not expired; a POST without a token is
\* answered 400 and a POST whose token is forged, is no token or has
\* expired 401, both without a sendEmail call.
DoubleOptIn ==
  /\ \A i \in 1..Len(accepted) : accepted[i] \in links
  /\ call.handler = "verify-and-send" =>
       LET tok == TokenOf(call.event)
           post == call.event.httpMethod = "POST"
       IN /\ call.sent # None =>
               /\ post
               /\ tok \in links
               /\ tok.key = jwtSecret(env)
               /\ tok.iat <= call.at
               /\ call.at < tok.exp
          /\ call.sent = None => call.log = <<>>
          /\ post /\ call.event.body = Null =>
               /\ call.response.statusCode = 400
               /\ call.sent = None
          /\ post /\ tok # Undefined /\ (tok \notin links \/ call.at >= tok.exp) =>
               /\ call.response.statusCode = 401
               /\ call.sent = None

DoubleOptInWitness ==
  /\ call.handler = "verify-and-send"
  /\ call.sent # None
  /\ call.response.statusCode = 200
  /\ accepted = <<TokenOf(call.event)>>
  /\ strategy = "mailgun"

\* C24: every email verify-and-send hands to sendEmail has the MP address
\* of the token as its to and a cc list made of the cc addresses of the
\* campaign followed by the email of the constituent of the token; a
\* record the queue stores for it has them as well.
ConstituentIsCopied ==
  call.handler = "verify-and-send" /\ call.sent # None =>
    LET o == call.sent[1]
        payload == TokenOf(call.event).payload
    IN /\ o.to = payload.mpEmail
       /\ o.cc.t = "array"
       /\ o.cc.v = campaign.cc \o <<payload.email>>
       /\ \A i \in 1..Len(call.log) :
            call.log[i].op = "fetch" => call.log[i].to = Arr(<<payload.mpEmail>>)
       /\ (strategy = "netlify-blobs" /\ sendResult[1].success) =>
            LET job == written[Len(written)].job
            IN /\ job.to = Arr(<<payload.mpEmail>>)
               /\ job.cc = Arr(campaign.cc \o <<payload.email>>)

ConstituentIsCopiedWitness ==
  /\ call.handler = "verify-and-send"
  /\ call.sent # None
  /\ campaign.cc # <<>>
  /\ strategy = "netlify-blobs"
  /\ sendResult[1].success
  /\ Len(store[sendResult[1].messageId].cc.v) = 2

\* the name a network strategy puts in its error texts
ProviderName ==
  IF strategy = "sendgrid" THEN "SendGrid API error: " ELSE "Mailgun API error: "

\* C25 as stated: when SendGrid or Mailgun answers the sendEmail call of a
\* handler with a non-success status, that call has issued one fetch and
\* returns success false with the error '<Provider> API error: <status>',
\* and the handler answers 500 after that one sendEmail call.
TransportErrorReportedOnce ==
  ( /\ call.handler # "none"
    /\ call.sent # None
    /\ strategy \in {"sendgrid", "mailgun"}
    /\ call.log[1].result = "resolves"
    /\ ~call.log[1].answer.ok ) =>
    /\ Cardinality({i \in 1..Len(call.log) : call.log[i].op = "fetch"}) = 1
    /\ call.log = effects
    /\ ~sendResult[1].success
    /\ sendResult[1].error = Str(<<ProviderName, call.log[1].answer.status>>)
    /\ call.response.statusCode = 500

\* the keys the loop of the invocation has gone past, in listing order
Iterated(p) ==
  LET selected == Slice(blobs[p], limit[p])
  IN SubSeq(selected, 1, Len(selected) - Len(todo[p]))

\* C26: a drain call takes its selected keys one at a time in listing
\* order; it issues a delete for a key only after its own get of that key
\* returned a record, and a key whose get returned nothing (a concurrent
\* drain took it) or rejected gets no delete and is not in the batch.
ReadBeforeDelete ==
  \A p \in Procs :
    /\ trace[p].deletes \subseteq trace[p].read
    /\ trace[p].read \subseteq trace[p].gets \ trace[p].getFailed
    /\ Ids(jobs[p]) \subseteq trace[p].deletes
    /\ pc[p] \in {"get", "delete"} =>
         /\ Slice(blobs[p], limit[p]) = Iterated(p) \o todo[p]
         /\ trace[p].gets =
              SeqToSet(Iterated(p))
              \cup (IF pc[p] = "delete" THEN {Head(todo[p])} ELSE {})
         /\ trace[p].read \ trace[p].deletes =
              (IF pc[p] = "delete" THEN {Head(todo[p])} ELSE {})
    /\ Answered(p, 200) =>
         /\ trace[p].gets = Selected(p)
         /\ trace[p].deletes = trace[p].read
         /\ Ids(response[p].jobs) \cap (trace[p].gets \ trace[p].read) = {}

ReadBeforeDeleteWitness ==
  \E p, q \in Procs :
    /\ p # q
    /\ Answered(p, 200)
    /\ Answered(q, 200)
    /\ trace[p].gets \ (trace[p].read \cup trace[p].getFailed) # {}
    /\ trace[q].getFailed # {}
    /\ trace[q].deletes # {}

\* C27 as stated: in a 200 answer returned is the number of jobs, at most
\* the limit of the request, or the default batch size when the request
\* has none, and at most the number of keys listed.
BatchWithinLimit ==
  \A p \in Procs :
    Answered(p, 200) =>
      /\ response[p].returned = Len(response[p].jobs)
      /\ Len(response[p].jobs) <= Len(blobs[p])
      /\ ( /\ request[p].t = "object"
           /\ request[p].limit = Undefined \/ request[p].limit.t = "number" )
         => Len(response[p].jobs) <= ClaimedLimit(p)

\* every record of the store is one a sendEmail call wrote, as it wrote it
OnlySendEmailWrites ==
  \A k \in DOMAIN store :
    \E i \in 1..Len(written) : written[i].key = k /\ StoredAsBuilt(written[i])

\* C29: the store holds nothing but what sendEmail wrote; a drain call
\* deletes, and returns, only keys among the first limit keys of its own
\* listing; the keys it listed beyond the limit and the keys enqueued
\* after its listing stay in the store and are not in its batch.
DrainFrame ==
  /\ OnlySendEmailWrites
  /\ \A p \in Procs :
       pc[p] # "idle" =>
         /\ trace[p].deletes \subseteq Selected(p)
         /\ Ids(jobs[p]) \subseteq Selected(p)
         /\ SeqToSet(blobs[p]) \ Selected(p) \subseteq DOMAIN store
         /\ \A k \in enqueued \ (SeqToSet(blobs[p]) \cup claimedBefore[p]) :
              /\ k \in DOMAIN store
              /\ k \notin Ids(jobs[p])
              /\ k \notin trace[p].gets

DrainFrameWitness ==
  \E p \in Procs :
    /\ Answered(p, 200)
    /\ response[p].jobs # <<>>
    /\ SeqToSet(blobs[p]) \ Selected(p) # {}
    /\ enqueued \ (SeqToSet(blobs[p]) \cup claimedBefore[p]) # {}

RECURSIVE DropSpaces(_)
\* s without the white space it starts with
DropSpaces(s) ==
  IF s # <<>> /\ IsSpace(Head(s)) THEN DropSpaces(Tail(s)) ELSE s

\* s without a leading 'Bearer', in any letter case, and the white space
\* that follows it
WithoutBearer(s) ==
  IF /\ Len(s) >= 7
     /\ toLowerCase(SubSeq(s, 1, 6)) = <<"b", "e", "a", "r", "e", "r">>
     /\ IsSpace(s[7])
  THEN DropSpaces(SubSeq(s, 7, Len(s)))
  ELSE s

\* the request presents the secret, or there is no secret to present
Presents(ev) ==
  LET header == Or(ev.headers.authorization, ev.headers.Authorization)
  IN \/ ~Truthy(env.EMAIL_NETLIFY_BLOBS_API_KEY)
     \/ /\ header.t = "string"
        /\ WithoutBearer(header.v) = env.EMAIL_NETLIFY_BLOBS_API_KEY.v

\* one of the headers of the request ends with the secret
KnowsSecret(ev) ==
  \E h \in {ev.headers.authorization, ev.headers.Authorization} :
    /\ h.t = "string"
    /\ Len(h.v) >= Len(Secret.v)
    /\ SubSeq(h.v, Len(h.v) - Len(Secret.v) + 1, Len(h.v)) = Secret.v

EventualDrain ==
  /\ \A k \in Keys : (k \in enqueued) ~> (returned[k] > 0)
  /\ <>[](DOMAIN store = {})

EventualDrainWitness ==
  /\ enqueued = Keys
  /\ DOMAIN store = {}
  /\ \A k \in Keys : returned[k] = 1
  /\ Answered("d1", 200)
  /\ request["d1"].limit = Num(1)

====
